---- MODULE Spec2Model ----
(***************************************************************************)
(* EmotiSense backend: the session store (database/db_handler.py) and the  *)
(* request handlers and background pipeline of main.py.                    *)
(*                                                                         *)
(* Every store method commits on its own (conn.commit() at the end of each *)
(* method), so one store call is one atomic step.  The pipeline of a       *)
(* session is a sequence of such steps; request handlers (upload, delete,  *)
(* results) may be served between any two of them, which is what a reader  *)
(* or a second worker process on the same emotisense.db file observes.     *)
(* The SQL statements themselves are taken to succeed (the sqlite3.Error   *)
(* handlers of update_status / update_session are not exercised); what a   *)
(* pipeline stage computes and whether it raises are inputs.               *)
(*                                                                         *)
(* Spec is the store, the uploads, the pipeline runs and the deletes.      *)
(* ApiSpec adds the read-only GET /api/results requests and their          *)
(* responses; TimedSpec adds the passing of wall-clock time during a run;  *)
(* FairSpec is Spec with every scheduled run carried to its end.           *)
(* AnalysisSpec is the computation of stages 2-4 on one video: the         *)
(* detections per frame and the audio measurements are the inputs, and     *)
(* EmotionAnalyzer, AudioAnalyzer and ReportGenerator are applied to them. *)
(* ScoringSpec is the same analysis on the videos used to compare scores;  *)
(* ScoreSpec is generate_report applied to given analysis data; DbSpec is  *)
(* the store called method by method.                                      *)
(***************************************************************************)
EXTENDS Integers, Sequences, FiniteSets, TLC

(* ---------------------------- bounds ----------------------------------- *)
MaxUploads == 2          \* number of /api/upload requests served
MaxElapsed == 601        \* wall-clock seconds a run is followed for
MaxRows == 3             \* analysis_results rows inserted by direct store calls

(* ------------------------ program constants ---------------------------- *)
BACKGROUND_TASK_TIMEOUT == 600

(* Config: the weights of the performance score, in thousandths. *)
FACIAL_SCORE_WEIGHT == 400
VOICE_SCORE_WEIGHT == 600
EYE_CONTACT_WEIGHT == 375
SMILE_AUTHENTICITY_WEIGHT == 250
ENGAGEMENT_WEIGHT == 250
EMOTION_APPROPRIATENESS_WEIGHT == 125
CLARITY_WEIGHT == 300
CONFIDENCE_WEIGHT == 400
VOICE_ENGAGEMENT_WEIGHT == 300

(* Seconds that may pass at once during a run: half the budget, or more    *)
(* than the whole budget.                                                  *)
StageDurations == {BACKGROUND_TASK_TIMEOUT \div 2, BACKGROUND_TASK_TIMEOUT + 1}

(* SQL NULL / Python None, and a present value. *)
NULL == <<>>
Some(v) == <<v>>

(* The identifiers uuid.uuid4() can return. *)
Ids == 1..MaxUploads

(* The five stages of process_video_pipeline, in program order. *)
StageOrder == <<"extract", "facial", "audio", "report", "save">>

Stages == {StageOrder[k] : k \in 1..Len(StageOrder)}

VARIABLES
    sessions,     \* table sessions: session_id -> row
    results,      \* table analysis_results: set of rows
    nextRowId,    \* AUTOINCREMENT counter of analysis_results.id
    files,        \* uploaded files present under uploads/
    runs,         \* background tasks, one record per scheduled pipeline run
    issued,       \* session ids generated so far
    deleted,      \* session ids removed by DELETE /api/session/{id}
    response,     \* the last response of GET /api/results/{id}
    phase,          \* position of one analysis of a video, outside the service
    video_frames,   \* what the detectors see in each extracted frame
    audio_features, \* what librosa measures on the extracted audio
    emotion_result, \* EmotionAnalyzer.analyze_frames(...), once it returned
    audio_result,   \* AudioAnalyzer.analyze_audio(...), once it returned
    report_result   \* ReportGenerator.generate_report(...), once it returned

(* The state of one analysis of a video by the three analysis modules. *)
analysis == <<phase, video_frames, audio_features, emotion_result,
              audio_result, report_result>>

vars == <<sessions, results, nextRowId, files, runs, issued, deleted, response,
          analysis>>

(* ------------------------- conversions --------------------------------- *)
(* json.dumps / json.loads: the stored column is text, not the object. *)
json_dumps(obj) == [text |-> obj]
json_loads(t) == t.text

(* ------------------------- DatabaseHandler ----------------------------- *)
(* INSERT INTO sessions ... 'pending'; a duplicate primary key raises      *)
(* sqlite3.IntegrityError, which is caught: nothing is inserted.           *)
create_session(S, session_id, file_path, filename) ==
    IF session_id \in DOMAIN S
    THEN S
    ELSE [x \in DOMAIN S \cup {session_id} |->
            IF x = session_id
            THEN [filename |-> filename, file_path |-> file_path,
                  status |-> "pending", progress |-> 0,
                  metadata |-> NULL, error |-> NULL]
            ELSE S[x]]

(* SELECT * FROM sessions WHERE session_id = ? *)
get_session(S, session_id) ==
    IF session_id \in DOMAIN S
    THEN Some([session_id |-> session_id,
               filename |-> S[session_id].filename,
               file_path |-> S[session_id].file_path,
               status |-> S[session_id].status,
               progress |-> S[session_id].progress,
               metadata |-> IF S[session_id].metadata # NULL
                            THEN Some(json_loads(S[session_id].metadata[1]))
                            ELSE NULL,
               error |-> S[session_id].error])
    ELSE NULL

(* Mutant: the UPDATE has no WHERE clause and sets every row. *)
update_status_NoWhere(S, session_id, status, progress) ==
    [x \in DOMAIN S |-> [S[x] EXCEPT !.status = status]]

(* UPDATE sessions SET status = ? [, progress = ?] WHERE session_id = ?    *)
(* An UPDATE that matches no row changes nothing and raises nothing.       *)
update_status(S, session_id, status, progress) ==
    IF session_id \notin DOMAIN S
    THEN S
    ELSE IF progress # NULL
         THEN [S EXCEPT ![session_id].status = status,
                        ![session_id].progress = progress[1]]
         ELSE [S EXCEPT ![session_id].status = status]

(* UPDATE sessions SET <key> = ?, ... WHERE session_id = ?; a "metadata"   *)
(* value is stored as json text.                                           *)
update_session(S, session_id, updates) ==
    IF session_id \notin DOMAIN S
    THEN S
    ELSE [S EXCEPT ![session_id] =
            [k \in DOMAIN S[session_id] |->
                IF k \in DOMAIN updates
                THEN IF k = "metadata"
                     THEN Some(json_dumps(updates[k]))
                     ELSE Some(updates[k])
                ELSE S[session_id][k]]]

(* INSERT INTO analysis_results ...  The schema declares a foreign key to  *)
(* sessions, but the connection never issues PRAGMA foreign_keys = ON, so  *)
(* sqlite does not enforce it: the row is inserted whether or not the      *)
(* session row exists.  An error while converting or inserting is caught   *)
(* and printed inside the method (raised = TRUE): nothing is inserted and  *)
(* nothing propagates to the caller.                                       *)
save_analysis_results(R, rowId, session_id, res, raised) ==
    IF raised
    THEN R
    ELSE R \cup {[id |-> rowId,
                  session_id |-> session_id,
                  emotion_analysis |-> json_dumps(res.emotion_analysis),
                  audio_analysis |-> json_dumps(res.audio_analysis),
                  report |-> json_dumps(res.report),
                  processed_at |-> res.processed_at]}

(* Rows of analysis_results of one session. *)
RowsOf(R, session_id) == {r \in R : r.session_id = session_id}

(* ORDER BY processed_at DESC LIMIT 1 *)
LatestRow(rows) ==
    CHOOSE r \in rows : \A q \in rows : q.processed_at <= r.processed_at

(* Mutant: the completed check is missing. *)
db_get_results_NoStatusCheck(S, R, session_id) ==
    IF session_id \notin DOMAIN S \/ RowsOf(R, session_id) = {}
    THEN NULL
    ELSE LET row == LatestRow(RowsOf(R, session_id))
         IN Some([session_id |-> session_id,
                  emotion_analysis |-> json_loads(row.emotion_analysis),
                  audio_analysis |-> json_loads(row.audio_analysis),
                  report |-> json_loads(row.report),
                  processed_at |-> row.processed_at])

(* DatabaseHandler.get_results: None unless the session exists and is      *)
(* completed; otherwise the latest row, decoded.                           *)
db_get_results(S, R, session_id) ==
    IF session_id \notin DOMAIN S \/ S[session_id].status # "completed"
    THEN NULL
    ELSE IF RowsOf(R, session_id) = {}
         THEN NULL
         ELSE LET row == LatestRow(RowsOf(R, session_id))
              IN Some([session_id |-> session_id,
                       emotion_analysis |-> json_loads(row.emotion_analysis),
                       audio_analysis |-> json_loads(row.audio_analysis),
                       report |-> json_loads(row.report),
                       processed_at |-> row.processed_at])

(* DatabaseHandler.delete_session: three DELETEs, one commit. *)
db_delete_results(R, session_id) == {r \in R : r.session_id # session_id}

db_delete_session(S, session_id) ==
    [x \in DOMAIN S \ {session_id} |-> S[x]]

(* DatabaseHandler.cleanup_old_sessions: DELETE FROM sessions WHERE         *)
(* created_at < ...; old is the set of rows older than the limit.  The     *)
(* rows of analysis_results and user_sessions are not touched.             *)
cleanup_old_sessions(S, old) ==
    [x \in DOMAIN S \ old |-> S[x]]

(* ----------------------- pipeline stage data --------------------------- *)
(* What the stages hand on, tagged with the uploaded video it came from.   *)
VideoMetadata(video) == [of |-> "metadata", video |-> video]
EmotionData(video) == [of |-> "emotion", video |-> video]
AudioData(video) == [of |-> "audio", video |-> video]
(* analyze_audio catches every exception and returns this instead. *)
AudioError == [error |-> "Audio analysis failed", duration_seconds |-> 0]
Report(emotion_data, audio_data, metadata) ==
    [of |-> "report", emotion |-> emotion_data, audio |-> audio_data,
     metadata |-> metadata]

(* str(e) of the exception a stage raised. *)
ErrorText(stage) ==
    CASE stage = "extract" -> "extract failed"
      [] stage = "facial" -> "facial analysis failed"
      [] stage = "report" -> "report generation failed"
      [] OTHER -> "error"

(* Mutant: the generated identifier may be one that is already in use. *)
NewSessionId_Reused(used) == Ids

(* session_id = str(uuid.uuid4()): an identifier never generated before.   *)
(* Identifiers are opaque, so the least unused one stands for it.          *)
NewSessionId(used) == {x \in Ids \ used : \A y \in Ids \ used : x <= y}

(* A freshly scheduled background task. *)
NewRun(session_id, video) ==
    [sid |-> session_id, video |-> video, pc |-> "scheduled", elapsed |-> 0,
     metadata |-> NULL, emotion_data |-> NULL, audio_data |-> NULL,
     report |-> NULL, e |-> NULL, trace |-> <<>>, failed |-> {}]

(* ------------------------------ Init ----------------------------------- *)
Init ==
    /\ sessions = <<>>
    /\ results = {}
    /\ nextRowId = 1
    /\ files = {}
    /\ runs = <<>>
    /\ issued = {}
    /\ deleted = {}
    /\ response = [op |-> "none", sid |-> 0, code |-> 0, body |-> NULL]
    /\ phase = "idle"
    /\ video_frames = <<>>
    /\ audio_features = NULL
    /\ emotion_result = NULL
    /\ audio_result = NULL
    /\ report_result = NULL

(* --------------------------- POST /api/upload -------------------------- *)
upload_video ==
    /\ Len(runs) < MaxUploads
    /\ \E isVideo \in BOOLEAN :
        IF ~isVideo
        THEN UNCHANGED vars    \* HTTPException(400): nothing is stored
        ELSE \E session_id \in NewSessionId(issued) :
                /\ issued' = issued \cup {session_id}
                /\ files' = files \cup {session_id}
                /\ sessions' = create_session(sessions, session_id, session_id, "upload")
                /\ runs' = Append(runs, NewRun(session_id, Len(runs) + 1))
                /\ UNCHANGED <<results, nextRowId, deleted, response,
                 analysis>>

(* ------------------------ process_video_pipeline ----------------------- *)
(* A stage that returned or raised. *)
Ran(r, stage) ==
    [r EXCEPT !.trace = Append(@, stage)]

(* The stage raised: control goes to the except block. *)
Raise(r, stage) ==
    [Ran(r, stage) EXCEPT !.pc = "except_status",
                             !.e = Some(ErrorText(stage)),
                             !.failed = @ \cup {stage}]

(* Mutant: the run begins without marking the session processing. *)
Start_NoStatus(i) ==
    /\ runs[i].pc = "scheduled"
    /\ runs' = [runs EXCEPT ![i].pc = "extract"]
    /\ UNCHANGED <<sessions, results, nextRowId, files, issued, deleted, response,
                 analysis>>

(* db.update_status(session_id, "processing") *)
Start(i) ==
    /\ runs[i].pc = "scheduled"
    /\ sessions' = update_status(sessions, runs[i].sid, "processing", NULL)
    /\ runs' = [runs EXCEPT ![i].pc = "extract"]
    /\ UNCHANGED <<results, nextRowId, files, issued, deleted, response,
                 analysis>>

(* Step 1: video_processor.process_video, then update_session(metadata).   *)
(* process_video raises FileNotFoundError when the upload is gone.         *)
Extract(i) ==
    /\ runs[i].pc = "extract"
    /\ \E raised \in BOOLEAN :
        /\ IF runs[i].sid \notin files \/ raised
           THEN /\ runs' = [runs EXCEPT ![i] = Raise(@, "extract")]
                /\ UNCHANGED sessions
           ELSE /\ runs' = [runs EXCEPT ![i] =
                              [Ran(@, "extract") EXCEPT
                                  !.pc = "facial",
                                  !.metadata = Some(VideoMetadata(runs[i].video))]]
                /\ sessions' = update_session(sessions, runs[i].sid,
                                  [metadata |-> VideoMetadata(runs[i].video)])
    /\ UNCHANGED <<results, nextRowId, files, issued, deleted, response,
                 analysis>>

(* Step 2: emotion_analyzer.analyze_frames *)
Facial(i) ==
    /\ runs[i].pc = "facial"
    /\ \E raised \in BOOLEAN :
        /\ runs' = [runs EXCEPT ![i] =
                      IF ~raised
                      THEN [Ran(@, "facial") EXCEPT
                              !.pc = "audio",
                              !.emotion_data = Some(EmotionData(runs[i].video))]
                      ELSE Raise(@, "facial")]
    /\ UNCHANGED <<sessions, results, nextRowId, files, issued, deleted, response,
                 analysis>>

(* Step 3: audio_analyzer.analyze_audio; a failure inside it is caught     *)
(* there and comes back as a dictionary with an "error" key.               *)
Audio(i) ==
    /\ runs[i].pc = "audio"
    /\ \E raised \in BOOLEAN :
        /\ runs' = [runs EXCEPT ![i] =
                      [Ran(@, "audio") EXCEPT
                          !.pc = "report",
                          !.audio_data = IF ~raised THEN Some(AudioData(runs[i].video))
                                               ELSE Some(AudioError),
                          !.failed = IF ~raised THEN @ ELSE @ \cup {"audio"}]]
    /\ UNCHANGED <<sessions, results, nextRowId, files, issued, deleted, response,
                 analysis>>

(* Mutant: the report is generated and the session completed, unsaved. *)
GenerateReport_SkipSave(i) ==
    /\ runs[i].pc = "report"
    /\ \E raised \in BOOLEAN :
        /\ runs' = [runs EXCEPT ![i] =
                      IF ~raised
                      THEN [Ran(@, "report") EXCEPT
                              !.pc = "complete",
                              !.report = Some(Report(runs[i].emotion_data[1],
                                                     runs[i].audio_data[1],
                                                     runs[i].metadata[1]))]
                      ELSE Raise(@, "report")]
    /\ UNCHANGED <<sessions, results, nextRowId, files, issued, deleted, response,
                 analysis>>

(* Step 4: report_generator.generate_report *)
GenerateReport(i) ==
    /\ runs[i].pc = "report"
    /\ \E raised \in BOOLEAN :
        /\ runs' = [runs EXCEPT ![i] =
                      IF ~raised
                      THEN [Ran(@, "report") EXCEPT
                              !.pc = "save",
                              !.report = Some(Report(runs[i].emotion_data[1],
                                                     runs[i].audio_data[1],
                                                     runs[i].metadata[1]))]
                      ELSE Raise(@, "report")]
    /\ UNCHANGED <<sessions, results, nextRowId, files, issued, deleted, response,
                 analysis>>

(* Step 5: db.save_analysis_results; it returns normally even when the     *)
(* insert did not happen.                                                  *)
Save(i) ==
    /\ runs[i].pc = "save"
    /\ \E raised \in BOOLEAN :
        /\ results' = save_analysis_results(results, nextRowId, runs[i].sid,
                          [emotion_analysis |-> runs[i].emotion_data[1],
                           audio_analysis |-> runs[i].audio_data[1],
                           report |-> runs[i].report[1],
                           processed_at |-> nextRowId],
                          raised)
        /\ nextRowId' = IF ~raised THEN nextRowId + 1 ELSE nextRowId
        /\ runs' = [runs EXCEPT ![i] =
                      [Ran(@, "save") EXCEPT
                          !.pc = "complete",
                          !.failed = IF ~raised THEN @ ELSE @ \cup {"save"}]]
    /\ UNCHANGED <<sessions, files, issued, deleted, response,
                 analysis>>

(* db.update_status(session_id, "completed") *)
Complete(i) ==
    /\ runs[i].pc = "complete"
    /\ sessions' = update_status(sessions, runs[i].sid, "completed", NULL)
    /\ runs' = [runs EXCEPT ![i].pc = "done"]
    /\ UNCHANGED <<results, nextRowId, files, issued, deleted, response,
                 analysis>>

(* Mutant: the except block records nothing about the status. *)
ExceptStatus_NoStatus(i) ==
    /\ runs[i].pc = "except_status"
    /\ runs' = [runs EXCEPT ![i].pc = "except_error"]
    /\ UNCHANGED <<sessions, results, nextRowId, files, issued, deleted, response,
                 analysis>>

(* except Exception: db.update_status(session_id, "failed") *)
ExceptStatus(i) ==
    /\ runs[i].pc = "except_status"
    /\ sessions' = update_status(sessions, runs[i].sid, "failed", NULL)
    /\ runs' = [runs EXCEPT ![i].pc = "except_error"]
    /\ UNCHANGED <<results, nextRowId, files, issued, deleted, response,
                 analysis>>

(* ... db.update_session(session_id, {"error": str(e)}) *)
ExceptError(i) ==
    /\ runs[i].pc = "except_error"
    /\ sessions' = update_session(sessions, runs[i].sid, [error |-> runs[i].e[1]])
    /\ runs' = [runs EXCEPT ![i].pc = "done"]
    /\ UNCHANGED <<results, nextRowId, files, issued, deleted, response,
                 analysis>>

(* One step of the background task i. *)
process_video_pipeline(i) ==
    \/ Start(i)
    \/ Extract(i)
    \/ Facial(i)
    \/ Audio(i)
    \/ GenerateReport(i)
    \/ Save(i)
    \/ Complete(i)
    \/ ExceptStatus(i)
    \/ ExceptError(i)

(* ---------------------- GET /api/results/{id} -------------------------- *)
ResultsResponse(S, R, session_id) ==
    LET res == db_get_results(S, R, session_id)
        session == get_session(S, session_id)
    IN IF res # NULL
       THEN [op |-> "results", sid |-> session_id, code |-> 200, body |-> res]
       ELSE [op |-> "results", sid |-> session_id, body |-> NULL,
             code |-> IF session = NULL THEN 404
                      ELSE IF session[1].status = "processing" THEN 202
                      ELSE IF session[1].status = "failed" THEN 500
                      ELSE 404]

get_results ==
    /\ \E session_id \in Ids :
         response' = ResultsResponse(sessions, results, session_id)
    /\ UNCHANGED <<sessions, results, nextRowId, files, runs, issued, deleted,
                 analysis>>

(* --------------------- DELETE /api/session/{id} ------------------------ *)
delete_session ==
    \E session_id \in Ids :
        IF get_session(sessions, session_id) = NULL
        THEN UNCHANGED vars    \* HTTPException(404)
        ELSE /\ files' = files \ {get_session(sessions, session_id)[1].file_path}
             /\ results' = db_delete_results(results, session_id)
             /\ sessions' = db_delete_session(sessions, session_id)
             /\ deleted' = deleted \cup {session_id}
             /\ UNCHANGED <<nextRowId, runs, issued, response,
                 analysis>>

(* ----------------------- wall-clock time ------------------------------- *)
(* Time passes while run i is inside the try block.  Nothing in            *)
(* process_video_pipeline reads a clock or BACKGROUND_TASK_TIMEOUT.        *)
Tick(i) ==
    /\ runs[i].pc \in Stages \cup {"complete"}
    /\ \E d \in StageDurations :
        /\ runs[i].elapsed + d <= MaxElapsed
        /\ runs' = [runs EXCEPT ![i].elapsed = @ + d]
    /\ UNCHANGED <<sessions, results, nextRowId, files, issued, deleted, response,
                 analysis>>

(* ------------------------------ Next ----------------------------------- *)
Next ==
    \/ upload_video
    \/ \E i \in 1..Len(runs) : process_video_pipeline(i)
    \/ delete_session

Spec == Init /\ [][Next]_vars

ApiNext ==
    \/ Next
    \/ get_results

ApiSpec == Init /\ [][ApiNext]_vars

TimedNext ==
    \/ Next
    \/ \E i \in 1..Len(runs) : Tick(i)

TimedSpec == Init /\ [][TimedNext]_vars

(* A scheduled background task is run to its end: every stage returns or   *)
(* raises, and the task is then resumed by the server.                     *)
FairSpec ==
    Spec /\ \A i \in 1..MaxUploads : WF_vars(i <= Len(runs) /\ process_video_pipeline(i))

(* ------------------ the store, called method by method ----------------- *)
(* Any sequence of create_session, save_analysis_results, delete_session   *)
(* and cleanup_old_sessions on one DatabaseHandler.  create_session is     *)
(* called without a user_id, as main.py calls it, so user_sessions stays   *)
(* empty and is left out.                                                  *)
DbCreate ==
    /\ \E session_id \in Ids :
         sessions' = create_session(sessions, session_id, session_id, "upload")
    /\ UNCHANGED <<results, nextRowId, files, runs, issued, deleted, response,
                 analysis>>

DbSave ==
    /\ nextRowId <= MaxRows
    /\ \E session_id \in Ids : \E raised \in BOOLEAN :
        /\ results' = save_analysis_results(results, nextRowId, session_id,
                          [emotion_analysis |-> EmotionData(session_id),
                           audio_analysis |-> AudioData(session_id),
                           report |-> Report(EmotionData(session_id),
                                             AudioData(session_id),
                                             VideoMetadata(session_id)),
                           processed_at |-> nextRowId],
                          raised)
        /\ nextRowId' = IF ~raised THEN nextRowId + 1 ELSE nextRowId
    /\ UNCHANGED <<sessions, files, runs, issued, deleted, response, analysis>>

DbDelete ==
    /\ \E session_id \in Ids :
        /\ results' = db_delete_results(results, session_id)
        /\ sessions' = db_delete_session(sessions, session_id)
    /\ UNCHANGED <<nextRowId, files, runs, issued, deleted, response, analysis>>

(* Which rows are older than the limit depends on the clock: any rows may  *)
(* be, since the sessions may have been created in any order.              *)
DbCleanup ==
    /\ \E old \in SUBSET DOMAIN sessions :
         sessions' = cleanup_old_sessions(sessions, old)
    /\ UNCHANGED <<results, nextRowId, files, runs, issued, deleted, response,
                 analysis>>

DbNext ==
    \/ DbCreate
    \/ DbSave
    \/ DbDelete
    \/ DbCleanup

DbSpec == Init /\ [][DbNext]_vars

(* ======================= properties of the runs ======================== *)
IsPrefix(s, t) == Len(s) <= Len(t) /\ \A k \in 1..Len(s) : s[k] = t[k]

RunIds == 1..Len(runs)

Exists(session_id) == session_id \in DOMAIN sessions

StatusOf(session_id) == sessions[session_id].status

Terminal == {"completed", "failed"}

AllowedTransitions ==
    {<<"pending", "processing">>, <<"processing", "completed">>,
     <<"processing", "failed">>}

C2_StageFailureMarksFailed ==
    \A i \in RunIds :
        (runs[i].pc = "done" /\ runs[i].failed # {} /\ Exists(runs[i].sid))
            => /\ StatusOf(runs[i].sid) = "failed"
               /\ sessions[runs[i].sid].error # NULL
               /\ runs[i].trace[Len(runs[i].trace)] \in runs[i].failed

(* C3: a completed session has exactly one analysis_results row. *)
C3_CompletedHasOneReport ==
    \A s \in DOMAIN sessions :
        StatusOf(s) = "completed" => Cardinality(RowsOf(results, s)) = 1

(* C4: GET /api/results hands out a body only for a session whose stored   *)
(* status is completed at that moment, and the body is that session's      *)
(* stored row.                                                             *)
C4_ResultsOnlyWhenCompleted ==
    [][(response' # response /\ response'.body # NULL)
          => /\ Exists(response'.sid)
             /\ StatusOf(response'.sid) = "completed"
             /\ response'.code = 200
             /\ \E r \in RowsOf(results, response'.sid) :
                   json_loads(r.report) = response'.body[1].report]_vars

(* A report has been returned for a completed session. *)
C4_Witness ==
    /\ response.code = 200
    /\ response.body # NULL
    /\ Exists(response.sid)
    /\ StatusOf(response.sid) = "completed"

(* C5: once a session has been deleted the store holds neither its session *)
(* row nor any analysis_results row for it, whatever its run does later.   *)
C5_DeletedLeavesNothing ==
    \A s \in deleted : ~Exists(s) /\ RowsOf(results, s) = {}

(* C6: a run that took longer than BACKGROUND_TASK_TIMEOUT ends with its   *)
(* session failed.                                                         *)
C6_OverBudgetMarkedFailed ==
    \A i \in RunIds :
        (runs[i].pc = "done" /\ runs[i].elapsed > BACKGROUND_TASK_TIMEOUT
            /\ Exists(runs[i].sid))
            => StatusOf(runs[i].sid) = "failed"

C8_OneRunPerSession ==
    \A i, j \in RunIds : i # j => runs[i].sid # runs[j].sid

(* Two runs are in progress at once, for different sessions. *)
C8_Witness ==
    \E i, j \in RunIds :
        /\ i # j
        /\ runs[i].pc \notin {"scheduled", "done"}
        /\ runs[j].pc \notin {"scheduled", "done"}

StageRecorded(row, k) ==
    \/ row.progress >= k
    \/ k = 1 /\ row.metadata # NULL

(* C10: when a run fails after stage k, the stored session shows the       *)
(* progress or metadata of each of the stages 1..k.                        *)
C10_StagesLeaveProgress ==
    \A i \in RunIds :
        (runs[i].e # NULL /\ Exists(runs[i].sid))
            => \A k \in 1..(Len(runs[i].trace) - 1) :
                  StageRecorded(sessions[runs[i].sid], k)

(* ===================== the three analysis modules ====================== *)
(* The analysis of one video outside the service: the detectors' findings  *)
(* per frame and librosa's measurements are the inputs; analyze_frames,    *)
(* analyze_audio and generate_report are applied to them in the order of   *)
(* the pipeline.  Python floats are modelled by exact integers: scores in  *)
(* hundredths or thousandths (the digits the code rounds to), percentages  *)
(* in tenths, timestamps in tenths of a second, unrounded quotients as     *)
(* fractions [num, den].  round() is round-half-to-even on the exact       *)
(* value; the binary representation error of a float is not modelled.      *)

(* Frames extracted from a short video. *)
MaxFrames == 4

(* dict.get(key, default) *)
Get(d, key, default) == IF key \in DOMAIN d THEN d[key] ELSE default

(* An unrounded float quotient num / den. *)
Ratio(n, d) == [num |-> n, den |-> d]

(* round(num / den): the nearest integer, a tie to the even one. *)
RoundHalfEven(num, den) ==
    LET q == num \div den
        r == num % den
    IN  IF 2 * r < den THEN q
        ELSE IF 2 * r > den THEN q + 1
        ELSE IF q % 2 = 0 THEN q ELSE q + 1

Min(a, b) == IF a <= b THEN a ELSE b

Max(a, b) == IF a >= b THEN a ELSE b

RECURSIVE SumSeq(_)
SumSeq(s) == IF s = <<>> THEN 0 ELSE Head(s) + SumSeq(Tail(s))

(* What the three Haar cascades find in one frame: no face, or a face with *)
(* a number of eyes and smiles, centred in the frame or not.  (A single    *)
(* smile detection occurs in LongVideos.)                                  *)
Detections ==
    {[face |-> FALSE]} \cup
    [face : {TRUE}, eyes : {0, 2}, smiles : {0, 2}, centered : BOOLEAN]

(* EmotionAnalyzer._estimate_emotion: the first label of the candidates    *)
(* after the stable sort by confidence, descending.                        *)
_estimate_emotion(has_eyes, has_smile, eye_count, smile_count) ==
    IF has_smile /\ eye_count >= 2 THEN "happy"
    ELSE IF has_smile /\ eye_count < 2 THEN "happy"
    ELSE IF ~has_smile /\ eye_count >= 2 THEN "neutral"
    ELSE "thoughtful"

(* EmotionAnalyzer._calculate_smile_score, in hundredths. *)
_calculate_smile_score(has_smile, has_eyes, smile_count) ==
    IF ~has_smile THEN 0
    ELSE Min(100, 50 + (IF has_eyes THEN 30 ELSE 0)
                     + (IF smile_count > 1 THEN 20 ELSE 0))

(* EmotionAnalyzer._calculate_engagement, in hundredths. *)
_calculate_engagement(has_eyes, eye_contact, has_smile) ==
    Min(100, (IF has_eyes THEN 30 ELSE 0) + (IF eye_contact THEN 40 ELSE 0)
             + (IF has_smile THEN 30 ELSE 0))

(* EmotionAnalyzer._analyze_single_frame; timestamp = frame_idx / 5.0 is   *)
(* kept in tenths of a second.                                             *)
_analyze_single_frame(frame, frame_idx) ==
    IF ~frame.face
    THEN [frame_index |-> frame_idx, face_detected |-> FALSE,
          timestamp |-> 2 * frame_idx]
    ELSE LET has_eyes == frame.eyes >= 2
             has_smile == frame.smiles > 0
             eye_contact == frame.centered
         IN  [frame_index |-> frame_idx,
              timestamp |-> 2 * frame_idx,
              face_detected |-> TRUE,
              emotion |-> _estimate_emotion(has_eyes, has_smile,
                                            frame.eyes, frame.smiles),
              eye_contact |-> eye_contact,
              smile_score |-> _calculate_smile_score(has_smile, has_eyes,
                                                     frame.smiles),
              engagement_level |-> _calculate_engagement(has_eyes, eye_contact,
                                                         has_smile)]

(* collections.Counter(emotions): the labels in the order they were first  *)
(* seen (dict insertion order) and the number of times each occurs.        *)
Counter(emotions) ==
    LET positions == [i \in 1..Len(emotions) |-> i]
        first == SelectSeq(positions,
                           LAMBDA i : \A j \in 1..(i - 1) : emotions[j] # emotions[i])
    IN  [keys |-> [k \in 1..Len(first) |-> emotions[first[k]]],
         count |-> [e \in {emotions[i] : i \in 1..Len(emotions)} |->
                       Cardinality({i \in 1..Len(emotions) : emotions[i] = e})]]

(* Mutant: among the labels with the highest count, the one seen last. *)
most_common_1_LastSeen(c) ==
    LET best == {k \in 1..Len(c.keys) :
                    \A j \in 1..Len(c.keys) : c.count[c.keys[j]] <= c.count[c.keys[k]]}
    IN  c.keys[CHOOSE k \in best : \A j \in best : j <= k]

(* Counter.most_common(1)[0][0]: max() over the items in insertion order   *)
(* returns the first label with the highest count.                         *)
most_common_1(c) ==
    LET best == {k \in 1..Len(c.keys) :
                    \A j \in 1..Len(c.keys) : c.count[c.keys[j]] <= c.count[c.keys[k]]}
    IN  c.keys[CHOOSE k \in best : \A j \in best : k <= j]

(* Mutant: the percentages are rounded to whole numbers. *)
distribution_percentages_Whole(emotion_distribution, total_emotions) ==
    [e \in DOMAIN emotion_distribution.count |->
        10 * RoundHalfEven(emotion_distribution.count[e] * 100, total_emotions)]

(* {emotion: round((count / total_emotions) * 100, 1) ...}, in tenths of a *)
(* percent.                                                                *)
distribution_percentages(emotion_distribution, total_emotions) ==
    [e \in DOMAIN emotion_distribution.count |->
        RoundHalfEven(emotion_distribution.count[e] * 1000, total_emotions)]

(* EmotionAnalyzer._generate_summary, the statistics over the frames with  *)
(* a face (lines 215-237).                                                 *)
SummaryStatistics(timeline, valid_frames) ==
    LET n == Len(valid_frames)
        emotions == [i \in 1..n |-> valid_frames[i].emotion]
        eye_contact_frames ==
            Cardinality({i \in 1..n : Get(valid_frames[i], "eye_contact", FALSE)})
        smile_sum == SumSeq([i \in 1..n |-> Get(valid_frames[i], "smile_score", 0)])
        engagement_sum ==
            SumSeq([i \in 1..n |-> Get(valid_frames[i], "engagement_level", 0)])
        emotion_distribution == Counter(emotions)
        total_emotions == Len(emotions)
    IN  [total_frames_analyzed |-> Len(timeline),
         frames_with_face |-> n,
         face_detection_rate |-> Ratio(n, Len(timeline)),
         eye_contact_percentage |-> Ratio(eye_contact_frames * 100, n),
         average_smile_authenticity |-> RoundHalfEven(smile_sum, n),
         average_engagement_level |-> RoundHalfEven(engagement_sum, n),
         emotion_distribution |->
             distribution_percentages(emotion_distribution, total_emotions),
         dominant_emotion |-> most_common_1(emotion_distribution),
         emotional_variability |->
             Ratio(Cardinality(DOMAIN emotion_distribution.count), 7)]

(* Mutant: no early return for an empty list of face frames; the division  *)
(* by len(valid_frames) raises.                                            *)
EmotionAnalyzer_generate_summary_NoGuard(timeline) ==
    LET valid_frames == SelectSeq(timeline, LAMBDA f : f.face_detected)
    IN  IF valid_frames = <<>>
        THEN [raised |-> "ZeroDivisionError"]
        ELSE SummaryStatistics(timeline, valid_frames)

(* EmotionAnalyzer._generate_summary *)
EmotionAnalyzer_generate_summary(timeline) ==
    LET valid_frames == SelectSeq(timeline, LAMBDA f : f.face_detected)
    IN  IF valid_frames = <<>>
        THEN [error |-> "No faces detected in video"]
        ELSE SummaryStatistics(timeline, valid_frames)

(* EmotionAnalyzer.analyze_frames *)
analyze_frames(frames) ==
    LET timeline == [i \in 1..Len(frames) |-> _analyze_single_frame(frames[i], i - 1)]
    IN  [timeline |-> timeline,
         summary |-> EmotionAnalyzer_generate_summary(timeline)]


(* ---------------------------- AudioAnalyzer ---------------------------- *)
(* Standard deviations of the pitch track, in Hz, for which the monotone   *)
(* score 1 / (1 + pitch_std / 50) is a whole number of millionths.         *)
PitchStds == {0, 50, 75, 150, 200}

(* What librosa measures on one audio track: the standard deviation of the *)
(* pitch (NULL: no pitched frame), the estimated words per minute in       *)
(* tenths, the spread of the RMS energy relative to its mean in hundredths *)
(* (NULL: the mean is 0 and the quotient is nan), the share of low-energy  *)
(* frames in hundredths, and the pauses between the non-silent intervals   *)
(* (NULL: no interval at all; otherwise how many of them last 0.3-0.8 s).  *)
AudioMeasurements ==
    [pitch_std : {NULL} \cup {Some(p) : p \in PitchStds},
     wpm : {Some(w) : w \in {1000, 1200, 1600, 2000, 2400}},
     energy : {[spread |-> Some(0), low_energy_ratio |-> 0],
               [spread |-> Some(50), low_energy_ratio |-> 40],
               [spread |-> Some(150), low_energy_ratio |-> 40],
               [spread |-> NULL, low_energy_ratio |-> 0]},
     pauses : {NULL, Some(Ratio(0, 0)), Some(Ratio(0, 2)), Some(Ratio(1, 2)),
               Some(Ratio(2, 2))}]

(* What librosa measures on a track without a sample, if it does not raise *)
(* on it: no pitched frame, a duration of 0 (wpm: NULL), an energy of 0    *)
(* throughout, and no non-silent interval or a single empty one.           *)
EmptyTracks ==
    [pitch_std : {NULL},
     wpm : {NULL},
     energy : {[spread |-> NULL, low_energy_ratio |-> 0]},
     pauses : {NULL, Some(Ratio(0, 0))}]

AudioTracks == AudioMeasurements \cup EmptyTracks

(* The float 1.0 in the unit of the audio sub-scores, millionths. *)
One == 1000 * 1000

(* AudioAnalyzer._analyze_prosody, scores in millionths. *)
_analyze_prosody(m) ==
    IF m.pitch_std = NULL
    THEN [variation |-> 0, range_hz |-> 0, monotone_score |-> One]
    ELSE LET pitch_std == m.pitch_std[1]
         IN  [pitch_std |-> pitch_std,
              variation_score |-> Min(One, (One * pitch_std) \div 100),
              monotone_score |-> (One * 50) \div (50 + pitch_std)]

(* AudioAnalyzer._analyze_speaking_rate, pace_score in millionths. *)
_analyze_speaking_rate(m) ==
    IF m.wpm = NULL
    THEN [words_per_minute |-> 0, pace |-> "unknown"]
    ELSE LET wpm == m.wpm[1]
         IN  [words_per_minute |-> wpm,
              pace |-> IF wpm < 1200 THEN "slow"
                       ELSE IF wpm <= 1600 THEN "optimal"
                       ELSE IF wpm <= 2000 THEN "fast" ELSE "very_fast",
              pace_score |-> IF wpm < 1200 THEN 600000
                             ELSE IF wpm <= 1600 THEN One
                             ELSE IF wpm <= 2000 THEN 700000 ELSE 400000]

(* AudioAnalyzer._analyze_energy, scores in millionths; min(1.0, nan) is   *)
(* 1.0 in Python.                                                          *)
_analyze_energy(m) ==
    [consistency_score |->
         One - (IF m.energy.spread = NULL THEN One
                ELSE Min(One, 10000 * m.energy.spread[1])),
     low_energy_ratio |-> 10000 * m.energy.low_energy_ratio,
     confidence_indicator |-> One - 10000 * m.energy.low_energy_ratio]

(* AudioAnalyzer._calculate_pause_naturalness, in millionths. *)
_calculate_pause_naturalness(pauses) ==
    IF pauses.den = 0 THEN 500000
    ELSE (One * pauses.num) \div pauses.den

(* AudioAnalyzer._analyze_pauses *)
_analyze_pauses(m) ==
    IF m.pauses = NULL
    THEN [total_pauses |-> 0, avg_pause_duration |-> 0, speaking_time_ratio |-> 0]
    ELSE [total_pauses |-> m.pauses[1].den,
          naturalness_score |-> _calculate_pause_naturalness(m.pauses[1])]

(* AudioAnalyzer._analyze_pitch, expressiveness in millionths:             *)
(* min(1, std / 80) * (1 - |std - 50| / 100) is min(80, std) * (100 - |std *)
(* - 50|) / 8000.                                                          *)
_analyze_pitch(m) ==
    IF m.pitch_std = NULL
    THEN [average_pitch |-> 0, pitch_stability |-> 0, expressiveness |-> 0]
    ELSE LET pitch_std == m.pitch_std[1]
             distance == IF pitch_std >= 50 THEN pitch_std - 50 ELSE 50 - pitch_std
             expressiveness == Min(80, pitch_std) * (100 - distance) * (One \div 8000)
         IN  [expressiveness |-> Max(0, expressiveness)]

(* Mutant: the monotone score is added instead of its complement. *)
_calculate_quality_scores_Monotone(prosody, speaking_rate, energy, pauses, pitch) ==
    LET clarity == Get(speaking_rate, "pace_score", 500000) * 6
                   + Get(energy, "consistency_score", 500000) * 4
        confidence == Get(energy, "confidence_indicator", 500000) * 5
                      + (One + Get(prosody, "monotone_score", 500000)) * 3
                      + Get(pauses, "naturalness_score", 500000) * 2
        engagement == Get(prosody, "variation_score", 500000) * 4
                      + Get(pitch, "expressiveness", 500000) * 4
                      + (One + Get(prosody, "monotone_score", 500000)) * 2
        overall == clarity * 3 + confidence * 4 + engagement * 3
    IN  [clarity |-> RoundHalfEven(clarity, One \div 10),
         confidence |-> RoundHalfEven(confidence, One \div 10),
         engagement |-> RoundHalfEven(engagement, One \div 10),
         overall |-> RoundHalfEven(overall, One)]

(* AudioAnalyzer._calculate_quality_scores: the weighted sums of scores in *)
(* millionths with weights in tenths (overall: in hundredths of that),     *)
(* each rounded to hundredths.                                             *)
_calculate_quality_scores(prosody, speaking_rate, energy, pauses, pitch) ==
    LET clarity == Get(speaking_rate, "pace_score", 500000) * 6
                   + Get(energy, "consistency_score", 500000) * 4
        confidence == Get(energy, "confidence_indicator", 500000) * 5
                      + (One - Get(prosody, "monotone_score", 500000)) * 3
                      + Get(pauses, "naturalness_score", 500000) * 2
        engagement == Get(prosody, "variation_score", 500000) * 4
                      + Get(pitch, "expressiveness", 500000) * 4
                      + (One - Get(prosody, "monotone_score", 500000)) * 2
        overall == clarity * 3 + confidence * 4 + engagement * 3
    IN  [clarity |-> RoundHalfEven(clarity, One \div 10),
         confidence |-> RoundHalfEven(confidence, One \div 10),
         engagement |-> RoundHalfEven(engagement, One \div 10),
         overall |-> RoundHalfEven(overall, One)]

(* The analyses of a track that librosa loads. *)
AudioAnalyses(m) ==
    LET prosody == _analyze_prosody(m)
        speaking_rate == _analyze_speaking_rate(m)
        energy == _analyze_energy(m)
        pauses == _analyze_pauses(m)
        pitch == _analyze_pitch(m)
    IN  [prosody |-> prosody,
         speaking_rate |-> speaking_rate,
         energy_analysis |-> energy,
         pause_analysis |-> pauses,
         pitch_analysis |-> pitch,
         quality_scores |-> _calculate_quality_scores(prosody, speaking_rate,
                                                      energy, pauses, pitch)]

(* Mutant: no try/except, an exception of librosa leaves analyze_audio. *)
analyze_audio_NoCatch(m) ==
    IF m = NULL
    THEN [raised |-> "Exception"]
    ELSE AudioAnalyses(m)

(* AudioAnalyzer.analyze_audio; any exception of librosa is caught. *)
analyze_audio(m) ==
    IF m = NULL
    THEN [error |-> "Audio analysis failed", duration_seconds |-> 0]
    ELSE AudioAnalyses(m)


(* --------------------------- ReportGenerator --------------------------- *)
(* An empty dict or list is false in a condition. *)
Truthy(d) == DOMAIN d # {}

(* s[:k] *)
Take(s, k) == SubSeq(s, 1, Min(k, Len(s)))

(* list.sort / sorted: a stable sort, Less(a, b) telling that a's key is   *)
(* before b's; elements with equal keys keep their order.                  *)
StableSort(s, Less(_, _)) ==
    LET n == Len(s)
        ahead(i) == Cardinality({j \in 1..n :
                        Less(s[j], s[i]) \/ (~Less(s[i], s[j]) /\ j < i)})
    IN  [p \in 1..n |-> s[CHOOSE i \in 1..n : ahead(i) = p - 1]]

(* Mutant: the two weights are exchanged. *)
combined_score_Exchanged(facial_score, voice_score) ==
    facial_score * 6 + voice_score * 4

(* overall = (facial_score * 0.4 + voice_score * 0.6), in tenths of the    *)
(* unit of its arguments.                                                  *)
combined_score(facial_score, voice_score) ==
    facial_score * 4 + voice_score * 6

(* Mutant: the score is not capped. *)
eye_contact_score_of_Uncapped(eye_contact_pct, den) ==
    eye_contact_pct.num * 35

(* eye_contact_score = min(1.0, eye_contact_pct / 80.0), as a numerator    *)
(* over den = 2800 * eye_contact_pct.den.                                  *)
eye_contact_score_of(eye_contact_pct, den) ==
    Min(den, eye_contact_pct.num * 35)

(* Mutant: the weights of the comments (15%, 10%, 10%, 5% of the overall    *)
(* score) in place of the weights of the sum.                              *)
facial_score_of_CommentWeights(eye_contact_score, smile_score, engagement_score, emotion_score) ==
    eye_contact_score * 150 + smile_score * 100
    + engagement_score * 100 + emotion_score * 50

(* facial_score = eye_contact_score * 0.375 + smile_score * 0.25 +          *)
(* engagement_score * 0.25 + emotion_score * 0.125, the weights in         *)
(* thousandths.                                                            *)
facial_score_of(eye_contact_score, smile_score, engagement_score, emotion_score) ==
    eye_contact_score * 375 + smile_score * 250
    + engagement_score * 250 + emotion_score * 125

(* ReportGenerator._calculate_performance_score.  The unrounded scores are *)
(* exact fractions over the common denominator den (eye contact, smile,    *)
(* engagement, emotion, clarity, confidence), den * 1000 (facial_score and *)
(* voice_score) and den * 10000 (overall); the returned fields are in      *)
(* thousandths, each one rounded on its own.                               *)
_calculate_performance_score(emotion_data, audio_data) ==
    LET emotion_summary == Get(emotion_data, "summary", <<>>)
        eye_contact_pct == Get(emotion_summary, "eye_contact_percentage", Ratio(0, 1))
        scale == 28 * eye_contact_pct.den
        den == 100 * scale
        eye_contact_score == eye_contact_score_of(eye_contact_pct, den)
        smile_score == Get(emotion_summary, "average_smile_authenticity", 0) * scale
        engagement_score == Get(emotion_summary, "average_engagement_level", 0) * scale
        emotion_dist == Get(emotion_summary, "emotion_distribution", <<>>)
        positive_emotions == Get(emotion_dist, "happy", 0)
                             + Get(emotion_dist, "confident", 0)
                             + Get(emotion_dist, "neutral", 0)
        emotion_score == Min(den, positive_emotions * 4 * eye_contact_pct.den)
        facial_score == IF Truthy(emotion_summary)
                        THEN facial_score_of(eye_contact_score, smile_score,
                                             engagement_score, emotion_score)
                        ELSE 0
        quality_scores == Get(audio_data, "quality_scores", <<>>)
        clarity == Get(quality_scores, "clarity", 0) * scale
        confidence == Get(quality_scores, "confidence", 0) * scale
        engagement == Get(quality_scores, "engagement", 0) * scale
        voice_score == IF Truthy(quality_scores)
                       THEN clarity * 300 + confidence * 400 + engagement * 300
                       ELSE 0
        overall == combined_score(facial_score, voice_score)
    IN  [overall |-> RoundHalfEven(overall, den * 10),
         facial_score |-> RoundHalfEven(facial_score, den),
         voice_score |-> RoundHalfEven(voice_score, den),
         breakdown |->
            [eye_contact |-> RoundHalfEven(
                 (IF Truthy(emotion_summary) THEN eye_contact_score ELSE 0) * 1000, den),
             smile_authenticity |-> RoundHalfEven(
                 (IF Truthy(emotion_summary) THEN smile_score ELSE 0) * 1000, den),
             engagement |-> RoundHalfEven(
                 (IF Truthy(emotion_summary) THEN engagement_score ELSE 0) * 1000, den),
             voice_clarity |-> RoundHalfEven(
                 (IF Truthy(quality_scores) THEN clarity ELSE 0) * 1000, den),
             voice_confidence |-> RoundHalfEven(
                 (IF Truthy(quality_scores) THEN confidence ELSE 0) * 1000, den),
             voice_engagement |-> RoundHalfEven(
                 (IF Truthy(quality_scores) THEN engagement ELSE 0) * 1000, den)]]

(* Mutant: the thresholds are exclusive. *)
_get_rating_Exclusive(score) ==
    IF score > 800 THEN "Excellent"
    ELSE IF score > 600 THEN "Good"
    ELSE IF score > 400 THEN "Fair"
    ELSE "Needs Improvement"

(* ReportGenerator._get_rating, the score in thousandths. *)
_get_rating(score) ==
    IF score >= 800 THEN "Excellent"
    ELSE IF score >= 600 THEN "Good"
    ELSE IF score >= 400 THEN "Fair"
    ELSE "Needs Improvement"

(* The strengths whose metric reaches 0.7, in the order of the checks. *)
StrengthChecks ==
    <<[metric |-> "eye_contact", text |-> "Excellent eye contact"],
      [metric |-> "smile_authenticity", text |-> "Authentic, warm facial expressions"],
      [metric |-> "voice_clarity", text |-> "Clear and well-paced speech delivery"],
      [metric |-> "voice_confidence", text |-> "Confident vocal presence"],
      [metric |-> "voice_engagement", text |-> "Engaging voice"],
      [metric |-> "engagement", text |-> "High overall engagement and presence"]>>

(* The strengths appended before the list is cut. *)
StrengthsFound(performance_score) ==
    LET breakdown == Get(performance_score, "breakdown", <<>>)
        hit == SelectSeq(StrengthChecks, LAMBDA c : Get(breakdown, c.metric, 0) >= 700)
        strengths == [k \in 1..Len(hit) |-> hit[k].text]
    IN  IF strengths = <<>> THEN <<"Baseline performance established">>
        ELSE strengths

(* Mutant: the list of strengths is returned whole. *)
_identify_strengths_Uncut(emotion_data, audio_data, performance_score) ==
    StrengthsFound(performance_score)

(* ReportGenerator._identify_strengths *)
_identify_strengths(emotion_data, audio_data, performance_score) ==
    Take(StrengthsFound(performance_score), 5)

(* The weaknesses of the breakdown, each with its own threshold. *)
WeaknessChecks ==
    <<[metric |-> "eye_contact", below |-> 500, text |-> "Eye contact needs improvement"],
      [metric |-> "smile_authenticity", below |-> 400,
       text |-> "Work on natural, authentic facial expressions"],
      [metric |-> "voice_clarity", below |-> 500, text |-> "Speech clarity"],
      [metric |-> "voice_confidence", below |-> 500, text |-> "Vocal confidence"],
      [metric |-> "voice_engagement", below |-> 500, text |-> "Voice monotony"]>>

(* ReportGenerator._identify_weaknesses *)
_identify_weaknesses(emotion_data, audio_data, performance_score) ==
    LET breakdown == Get(performance_score, "breakdown", <<>>)
        hit == SelectSeq(WeaknessChecks,
                         LAMBDA c : Get(breakdown, c.metric, 0) < c.below)
        prosody == Get(audio_data, "prosody", <<>>)
        speaking_rate == Get(audio_data, "speaking_rate", <<>>)
        weaknesses ==
            [k \in 1..Len(hit) |-> hit[k].text]
            \o (IF Get(prosody, "monotone_score", 0) > 700000
                THEN <<"Voice is too monotone">> ELSE <<>>)
            \o (IF Get(speaking_rate, "words_per_minute", 0) > 2000
                THEN <<"Speaking too fast">> ELSE <<>>)
    IN  Take(weaknesses, 5)

(* The metrics of the improvement plan: breakdown key, title, action. *)
metrics ==
    <<[metric_key |-> "eye_contact", title |-> "Eye Contact",
       action |-> "Practice looking directly at the camera lens."],
      [metric_key |-> "smile_authenticity", title |-> "Facial Expressions",
       action |-> "Practice genuine smiles in the mirror."],
      [metric_key |-> "voice_clarity", title |-> "Speech Clarity",
       action |-> "Slow down by 10-20%."],
      [metric_key |-> "voice_confidence", title |-> "Vocal Confidence",
       action |-> "Breathe deeply."],
      [metric_key |-> "voice_engagement", title |-> "Voice Variation",
       action |-> "Practice emphasizing key words."]>>

(* The sort key of a plan entry, (priority == "high", current_score), as   *)
(* Python orders tuples: False before True, then the score ascending.      *)
PlanKeyLess(a, b) ==
    LET ah == IF a.priority = "high" THEN 1 ELSE 0
        bh == IF b.priority = "high" THEN 1 ELSE 0
    IN  ah < bh \/ (ah = bh /\ a.current_score < b.current_score)

(* ReportGenerator._create_improvement_plan; current_score and             *)
(* target_score in hundredths, round(score, 2) of a score in thousandths.  *)
_create_improvement_plan(emotion_data, audio_data, performance_score) ==
    LET breakdown == Get(performance_score, "breakdown", <<>>)
        low == SelectSeq(metrics, LAMBDA m : Get(breakdown, m.metric_key, 0) < 600)
        plan == [k \in 1..Len(low) |->
                    LET score == Get(breakdown, low[k].metric_key, 0)
                    IN  [area |-> low[k].title,
                         current_score |-> RoundHalfEven(score, 10),
                         priority |-> IF score < 400 THEN "high" ELSE "medium",
                         action |-> low[k].action,
                         target_score |-> 70]]
    IN  Take(StableSort(plan, PlanKeyLess), 5)


(* s[::step] *)
Stride(s, step) == [k \in 1..((Len(s) + step - 1) \div step) |-> s[(k - 1) * step + 1]]

(* f"{int(timestamp // 60)}:{int(timestamp % 60):02d}" of a timestamp in   *)
(* tenths of a second: whole minutes and whole seconds.                    *)
timestamp_formatted(timestamp) ==
    [minutes |-> timestamp \div 600, seconds |-> (timestamp % 600) \div 10]

(* Mutant: among equal engagement levels the later frame comes first. *)
top_engagement_LatestFirst(engagement_scores) ==
    Take(StableSort([k \in 1..Len(engagement_scores) |->
                        engagement_scores[Len(engagement_scores) + 1 - k]],
                    LAMBDA a, b : a[2] > b[2]), 3)

(* sorted(engagement_scores, key=lambda x: x[1], reverse=True)[:3]: the    *)
(* reversed sort keeps the order of elements with equal keys.              *)
top_engagement(engagement_scores) ==
    Take(StableSort(engagement_scores, LAMBDA a, b : a[2] > b[2]), 3)

(* Mutant: the sample is not cut to three frames. *)
sample_moments_Uncut(poor_eye_contact) ==
    IF Len(poor_eye_contact) > 5
    THEN Stride(poor_eye_contact, Len(poor_eye_contact) \div 3)
    ELSE <<>>

(* poor_eye_contact[::len(poor_eye_contact)//3][:3] if there are more than *)
(* 5 such frames.                                                          *)
sample_moments(poor_eye_contact) ==
    IF Len(poor_eye_contact) > 5
    THEN Take(Stride(poor_eye_contact, Len(poor_eye_contact) \div 3), 3)
    ELSE <<>>

(* ReportGenerator._identify_key_moments *)
_identify_key_moments(emotion_data, audio_data) ==
    LET timeline == Get(emotion_data, "timeline", <<>>)
        faces == SelectSeq(timeline, LAMBDA f : Get(f, "face_detected", FALSE))
        engagement_scores ==
            [k \in 1..Len(faces) |->
                <<Get(faces[k], "timestamp", 0), Get(faces[k], "engagement_level", 0)>>]
        top == top_engagement(engagement_scores)
        peaks == [k \in 1..Len(top) |->
                    [timestamp |-> top[k][1],
                     type |-> "peak_engagement",
                     score |-> top[k][2],
                     timestamp_formatted |-> timestamp_formatted(top[k][1])]]
        poor_eye_contact ==
            SelectSeq(faces, LAMBDA f : ~Get(f, "eye_contact", TRUE))
        sampled == sample_moments(poor_eye_contact)
        breaks == [k \in 1..Len(sampled) |->
                    [timestamp |-> Get(sampled[k], "timestamp", 0),
                     type |-> "improvement_opportunity",
                     timestamp_formatted |->
                         timestamp_formatted(Get(sampled[k], "timestamp", 0))]]
        moments == StableSort(peaks \o breaks,
                              LAMBDA a, b : a.timestamp < b.timestamp)
    IN  Take(moments, 10)

(* ReportGenerator._generate_summary: what the text says.  The duration is *)
(* in whole seconds, {eye_contact:.0f} a whole percentage, the overall     *)
(* voice score in hundredths.                                              *)
ReportGenerator_generate_summary(emotion_data, audio_data, metadata) ==
    LET emotion_summary == Get(emotion_data, "summary", <<>>)
        quality_scores == Get(audio_data, "quality_scores", <<>>)
        duration == Get(metadata, "duration_seconds", 0)
        eye_contact == Get(emotion_summary, "eye_contact_percentage", Ratio(0, 1))
        overall_voice == Get(quality_scores, "overall", 0)
    IN  [duration_str |-> [minutes |-> duration \div 60, seconds |-> duration % 60],
         dominant_emotion |-> Get(emotion_summary, "dominant_emotion", "neutral"),
         eye_contact |-> RoundHalfEven(eye_contact.num, eye_contact.den),
         voice_delivery |-> IF overall_voice >= 70 THEN "strong"
                            ELSE IF overall_voice >= 50 THEN "adequate"
                            ELSE "needs significant improvement"]

(* ReportGenerator._format_facial_metrics: the detection rate as a         *)
(* percentage in tenths, and the dominant emotion.                         *)
_format_facial_metrics(emotion_data) ==
    LET summary == Get(emotion_data, "summary", <<>>)
        face_detection_rate == Get(summary, "face_detection_rate", Ratio(0, 1))
    IN  [face_detection_rate |->
             RoundHalfEven(face_detection_rate.num * 1000, face_detection_rate.den),
         dominant_emotion |-> Get(summary, "dominant_emotion", "unknown"),
         emotion_distribution |-> Get(summary, "emotion_distribution", <<>>)]

(* ReportGenerator.generate_report.  The insights, the voice metrics and   *)
(* generated_at are left out: no modelled field is computed from them.     *)
generate_report(emotion_data, audio_data, metadata) ==
    LET performance_score == _calculate_performance_score(emotion_data, audio_data)
    IN  [performance_score |-> performance_score,
         rating |-> _get_rating(performance_score.overall),
         summary |-> ReportGenerator_generate_summary(emotion_data, audio_data, metadata),
         detailed_metrics |->
             [facial_analysis |-> _format_facial_metrics(emotion_data)],
         strengths |-> _identify_strengths(emotion_data, audio_data, performance_score),
         weaknesses |-> _identify_weaknesses(emotion_data, audio_data, performance_score),
         improvement_plan |->
             _create_improvement_plan(emotion_data, audio_data, performance_score),
         key_moments |-> _identify_key_moments(emotion_data, audio_data)]

(* ---------------------- one analysis, step by step --------------------- *)
(* n frames with the same detections. *)
Repeat(d, n) == [i \in 1..n |-> d]

RECURSIVE SeqsUpTo(_, _)
(* The sequences over S of length 0..n. *)
SeqsUpTo(S, n) ==
    IF n = 0 THEN {<<>>}
    ELSE LET shorter == SeqsUpTo(S, n - 1)
         IN  shorter \cup {Append(s, x) : s \in {t \in shorter : Len(t) = n - 1}, x \in S}

(* Every video of up to MaxFrames frames. *)
ShortVideos == SeqsUpTo(Detections, MaxFrames)

(* Longer videos, of a few seconds at 5 frames per second: the speaker     *)
(* looks into the camera in 11 of 23 frames; never, with or without a      *)
(* smile; always, smiling broadly; not in the first 6 of 14 frames; not in *)
(* the first 7 of 9 frames; and only in the last of 5 frames that follow a *)
(* frame without a face.                                                   *)
LongVideos ==
    LET away == [face |-> TRUE, eyes |-> 2, smiles |-> 1, centered |-> FALSE]
        into == [face |-> TRUE, eyes |-> 2, smiles |-> 1, centered |-> TRUE]
        blank == [face |-> TRUE, eyes |-> 0, smiles |-> 0, centered |-> FALSE]
        broad == [face |-> TRUE, eyes |-> 2, smiles |-> 2, centered |-> TRUE]
        beside == [face |-> TRUE, eyes |-> 2, smiles |-> 2, centered |-> FALSE]
    IN  {Repeat(into, 11) \o Repeat(away, 12),
         Repeat(blank, 6),
         Repeat(away, 6),
         Repeat(broad, 5),
         Repeat(beside, 6) \o Repeat(broad, 8),
         Repeat(away, 7) \o Repeat(broad, 2),
         <<[face |-> FALSE]>> \o Repeat(away, 4) \o <<into>>}

(* The audio track of the short videos. *)
PlainAudio ==
    [pitch_std |-> Some(50), wpm |-> Some(1200),
     energy |-> [spread |-> Some(50), low_energy_ratio |-> 40],
     pauses |-> Some(Ratio(1, 2))]

(* A video has been processed into frames and an audio file; nothing is    *)
(* stored.  audio_features = NULL: librosa fails on the file.              *)
AnalysisInit ==
    /\ sessions = <<>>
    /\ results = {}
    /\ nextRowId = 1
    /\ files = {}
    /\ runs = <<>>
    /\ issued = {}
    /\ deleted = {}
    /\ response = [op |-> "none", sid |-> 0, code |-> 0, body |-> NULL]
    /\ phase = "facial"
    /\ \/ /\ video_frames \in ShortVideos
          /\ audio_features = Some(PlainAudio)
       \/ /\ video_frames \in LongVideos
          /\ audio_features \in {NULL} \cup {Some(m) : m \in AudioTracks}
    /\ emotion_result = NULL
    /\ audio_result = NULL
    /\ report_result = NULL

store == <<sessions, results, nextRowId, files, runs, issued, deleted, response>>

(* Stage 2: emotion_data = emotion_analyzer.analyze_frames(frames) *)
FacialStage ==
    /\ phase = "facial"
    /\ LET emotion_data == analyze_frames(video_frames)
       IN  IF "raised" \in DOMAIN emotion_data.summary
           THEN /\ phase' = "failed"
                /\ UNCHANGED emotion_result
           ELSE /\ phase' = "audio"
                /\ emotion_result' = Some(emotion_data)
    /\ UNCHANGED <<store, video_frames, audio_features, audio_result, report_result>>

(* Stage 3: audio_data = audio_analyzer.analyze_audio(audio_path); an       *)
(* exception that leaves analyze_audio ends the pipeline.                  *)
AudioStage ==
    /\ phase = "audio"
    /\ LET audio_data == analyze_audio(IF audio_features = NULL THEN NULL
                                       ELSE audio_features[1])
       IN  IF "raised" \in DOMAIN audio_data
           THEN /\ phase' = "failed"
                /\ UNCHANGED audio_result
           ELSE /\ phase' = "report"
                /\ audio_result' = Some(audio_data)
    /\ UNCHANGED <<store, video_frames, audio_features, emotion_result, report_result>>

(* Stage 4: report = report_generator.generate_report(...) *)
ReportStage ==
    /\ phase = "report"
    /\ phase' = "done"
    /\ report_result' = Some(generate_report(emotion_result[1], audio_result[1], <<>>))
    /\ UNCHANGED <<store, video_frames, audio_features, emotion_result, audio_result>>

AnalysisNext ==
    \/ FacialStage
    \/ AudioStage
    \/ ReportStage

AnalysisSpec == AnalysisInit /\ [][AnalysisNext]_vars

(* The same analysis on the videos whose summaries the scoring is compared *)
(* on: the videos of at most two frames with a plain audio track, and the  *)
(* longer videos with every audio track.                                   *)
ScoringInit ==
    /\ sessions = <<>>
    /\ results = {}
    /\ nextRowId = 1
    /\ files = {}
    /\ runs = <<>>
    /\ issued = {}
    /\ deleted = {}
    /\ response = [op |-> "none", sid |-> 0, code |-> 0, body |-> NULL]
    /\ phase = "facial"
    /\ \/ /\ video_frames \in SeqsUpTo(Detections, 2)
          /\ audio_features = Some(PlainAudio)
       \/ /\ video_frames \in LongVideos
          /\ audio_features \in {NULL} \cup {Some(m) : m \in AudioTracks}
    /\ emotion_result = NULL
    /\ audio_result = NULL
    /\ report_result = NULL

ScoringSpec == ScoringInit /\ [][AnalysisNext]_vars

(* ------------------- the report of given analysis data ------------------ *)
(* Summaries of a facial analysis as generate_report reads them: the eye   *)
(* contact percentage, the two averages in hundredths and the emotion      *)
(* distribution in tenths of a percent.                                    *)
EmotionSummaries ==
    [eye_contact_percentage : {Ratio(p, 1) : p \in {0, 40, 80, 100}},
     average_smile_authenticity : {0, 50, 100},
     average_engagement_level : {0, 50, 100},
     emotion_distribution :
         {[e \in {"happy"} |-> 1000],
          [e \in {"happy", "sad"} |-> 500],
          [e \in {"sad"} |-> 1000]}]

(* The quality scores of an audio analysis, in hundredths. *)
QualityScoreSets ==
    {[clarity |-> c, confidence |-> f, engagement |-> e,
      overall |-> RoundHalfEven(c * 3 + f * 4 + e * 3, 10)] :
        c \in {0, 50, 100}, f \in {0, 50, 100}, e \in {0, 50, 100}}

(* generate_report is called with the data of a facial analysis and of an  *)
(* audio analysis; either may come without its scores.                     *)
ScoreInit ==
    /\ sessions = <<>>
    /\ results = {}
    /\ nextRowId = 1
    /\ files = {}
    /\ runs = <<>>
    /\ issued = {}
    /\ deleted = {}
    /\ response = [op |-> "none", sid |-> 0, code |-> 0, body |-> NULL]
    /\ phase = "report"
    /\ video_frames = <<>>
    /\ audio_features = NULL
    /\ emotion_result \in
           {Some([timeline |-> <<>>, summary |-> <<>>])}
           \cup {Some([timeline |-> <<>>, summary |-> m]) : m \in EmotionSummaries}
    /\ audio_result \in
           {Some([error |-> "Audio analysis failed", duration_seconds |-> 0])}
           \cup {Some([quality_scores |-> q]) : q \in QualityScoreSets}
    /\ report_result = NULL

ScoreSpec == ScoreInit /\ [][ReportStage]_vars




(* ================== properties of the analysis modules ================= *)
(* The report of a finished analysis and its parts. *)
Reported == phase = "done"

TheReport == report_result[1]

TheScore == TheReport.performance_score

Breakdown == TheScore.breakdown

BreakdownMetrics ==
    {"eye_contact", "smile_authenticity", "engagement",
     "voice_clarity", "voice_confidence", "voice_engagement"}

(* The weighted sum of the returned facial_score and voice_score minus the *)
(* returned overall, in ten-thousandths, as an absolute value.             *)
WeightedSumGap ==
    LET sum == 4 * TheScore.facial_score + 6 * TheScore.voice_score
        ten == 10 * TheScore.overall
    IN  IF sum >= ten THEN sum - ten ELSE ten - sum

(* C11 as stated: the returned overall equals 0.4 * facial_score + 0.6 *   *)
(* voice_score of the returned fields within 1e-9; the fields are whole    *)
(* thousandths, so within 1e-9 is equality.                                *)
C11_OverallIsExactWeightedSum == Reported => WeightedSumGap = 0

(* C11, amended: the returned overall differs from 0.4 * facial_score +    *)
(* 0.6 * voice_score of the returned fields by at most 0.001, the three    *)
(* fields being rounded to three decimals one by one.                      *)
C11_OverallIsWeightedSumRounded == Reported => WeightedSumGap <= 10

(* A report whose three rounded fields do not add up exactly. *)
C11_Witness ==
    /\ Reported
    /\ TheScore.facial_score > 0
    /\ TheScore.voice_score > 0
    /\ WeightedSumGap > 0


(* The quality scores of the analysed audio, if it has any. *)
QualityScores == Get(audio_result[1], "quality_scores", <<>>)

(* C12: every score component lies between 0 and 1: overall, facial_score, *)
(* voice_score and the six breakdown entries of a report (thousandths),    *)
(* and clarity, confidence, engagement and overall of the audio quality    *)
(* scores (hundredths).                                                    *)
C12_ScoresBetween0And1 ==
    /\ audio_result # NULL =>
          \A k \in DOMAIN QualityScores : QualityScores[k] \in 0..100
    /\ Reported =>
          /\ TheScore.overall \in 0..1000
          /\ TheScore.facial_score \in 0..1000
          /\ TheScore.voice_score \in 0..1000
          /\ DOMAIN Breakdown = BreakdownMetrics
          /\ \A k \in BreakdownMetrics : Breakdown[k] \in 0..1000

(* A report over measured audio in which the eye contact, 100 percent of   *)
(* the frames, is capped at 1 and a voice score reaches 1.                 *)
C12_Witness ==
    /\ Reported
    /\ DOMAIN QualityScores = {"clarity", "confidence", "engagement", "overall"}
    /\ Get(emotion_result[1].summary, "eye_contact_percentage", Ratio(0, 1))
           = Ratio(500, 5)
    /\ Breakdown.eye_contact = 1000
    /\ Breakdown.voice_clarity = 1000
    /\ TheScore.voice_score < 1000


(* No frame of the video shows a face (the video may have no frame). *)
NoFace == \A i \in 1..Len(video_frames) : ~video_frames[i].face

FacialSummary == emotion_result[1].summary

(* C13: for a video without a frame or without a face in any frame, the    *)
(* facial analysis returns (it does not raise), its summary has no         *)
(* dominant emotion and its detection rate reads as zero, and the report   *)
(* has facial_score 0 and the breakdown entries eye_contact,               *)
(* smile_authenticity and engagement 0.                                    *)
C13_NoFaceScoresZero ==
    NoFace =>
        /\ phase # "failed"
        /\ emotion_result # NULL =>
              /\ "dominant_emotion" \notin DOMAIN FacialSummary
              /\ Get(FacialSummary, "face_detection_rate", Ratio(0, 1)).num = 0
        /\ Reported =>
              /\ TheScore.facial_score = 0
              /\ Breakdown.eye_contact = 0
              /\ Breakdown.smile_authenticity = 0
              /\ Breakdown.engagement = 0
              /\ TheScore.overall \in 0..1000
              /\ TheReport.detailed_metrics.facial_analysis.face_detection_rate = 0
              /\ TheReport.detailed_metrics.facial_analysis.dominant_emotion = "unknown"

(* A report on a video with frames and no face, the voice being scored. *)
C13_Witness ==
    /\ Reported
    /\ video_frames # <<>>
    /\ NoFace
    /\ TheScore.voice_score > 0


(* C15: the rating is "Excellent" exactly when the reported overall score  *)
(* is at least 0.8, "Good" exactly when it is at least 0.6 and below 0.8,  *)
(* "Fair" exactly when it is at least 0.4 and below 0.6, and "Needs        *)
(* Improvement" exactly when it is below 0.4.                              *)
C15_RatingFollowsOverall ==
    Reported =>
        /\ TheReport.rating = "Excellent" <=> TheScore.overall >= 800
        /\ TheReport.rating = "Good" <=>
               (TheScore.overall >= 600 /\ TheScore.overall < 800)
        /\ TheReport.rating = "Fair" <=>
               (TheScore.overall >= 400 /\ TheScore.overall < 600)
        /\ TheReport.rating = "Needs Improvement" <=> TheScore.overall < 400

(* A report whose overall score is exactly 0.6, rated "Good". *)
C15_Witness ==
    /\ Reported
    /\ TheScore.overall = 600
    /\ TheReport.rating = "Good"


(* The analysed frames with a face, and the timestamps of the key moments  *)
(* of one type.                                                            *)
FaceFrames ==
    {f \in {emotion_result[1].timeline[i] : i \in 1..Len(video_frames)} : f.face_detected}

MomentsOfType(type) ==
    SelectSeq(TheReport.key_moments, LAMBDA m : m.type = type)

PeakTimestamps ==
    {MomentsOfType("peak_engagement")[k].timestamp :
        k \in 1..Len(MomentsOfType("peak_engagement"))}

(* C16: the peak_engagement moments are the three frames with a face (all  *)
(* of them if there are fewer) with the highest engagement_level, an       *)
(* earlier frame being preferred to a later one of equal engagement; each  *)
(* moment is a frame with a face.                                          *)
C16_PeaksAreTopThree ==
    Reported =>
        /\ Len(MomentsOfType("peak_engagement")) = Min(3, Cardinality(FaceFrames))
        /\ Cardinality(PeakTimestamps) = Len(MomentsOfType("peak_engagement"))
        /\ \A t \in PeakTimestamps : \E f \in FaceFrames : f.timestamp = t
        /\ \A a \in FaceFrames : \A b \in FaceFrames :
              (a.timestamp \in PeakTimestamps /\ b.timestamp \notin PeakTimestamps)
                  => \/ a.engagement_level > b.engagement_level
                     \/ /\ a.engagement_level = b.engagement_level
                        /\ a.timestamp < b.timestamp

(* A report in which a frame with a face is left out for a frame of equal  *)
(* engagement before it, and a frame without a face is in the video.       *)
C16_Witness ==
    /\ Reported
    /\ \E i \in 1..Len(video_frames) : ~video_frames[i].face
    /\ \E a \in FaceFrames : \E b \in FaceFrames :
          /\ a.timestamp \in PeakTimestamps
          /\ b.timestamp \notin PeakTimestamps
          /\ a.engagement_level = b.engagement_level


Plan == TheReport.improvement_plan

(* C17: in the improvement plan every "high" entry comes before every      *)
(* "medium" entry, and entries of the same priority are in non-decreasing  *)
(* order of current_score.                                                 *)
C17_PlanHighFirstThenByScore ==
    Reported =>
        \A i \in 1..Len(Plan) : \A j \in 1..Len(Plan) :
            i < j =>
                /\ ~(Plan[i].priority = "medium" /\ Plan[j].priority = "high")
                /\ Plan[i].priority = Plan[j].priority
                       => Plan[i].current_score <= Plan[j].current_score

(* The plan has an entry under the title of a breakdown metric. *)
HasPlanEntry(metric) ==
    \E k \in 1..Len(metrics) :
        /\ metrics[k].metric_key = metric
        /\ \E i \in 1..Len(Plan) : Plan[i].area = metrics[k].title

(* C18: a breakdown metric has an entry in the improvement plan exactly    *)
(* when its score is below 0.6; the priority of an entry is "high" exactly *)
(* when the score of its metric is below 0.4, else "medium"; and its       *)
(* current_score is below 0.6, and below 0.4 exactly when the priority is  *)
(* "high".                                                                 *)
C18_PlanEntriesFollowScores ==
    Reported =>
        /\ \A metric \in BreakdownMetrics :
              HasPlanEntry(metric) <=> Breakdown[metric] < 600
        /\ \A i \in 1..Len(Plan) :
              /\ Plan[i].priority \in {"high", "medium"}
              /\ \A k \in 1..Len(metrics) :
                    metrics[k].title = Plan[i].area =>
                        (Plan[i].priority = "high"
                            <=> Breakdown[metrics[k].metric_key] < 400)
              /\ Plan[i].current_score < 60
              /\ Plan[i].priority = "high" <=> Plan[i].current_score < 40


(* C19: a report has at most 5 strengths, 5 weaknesses, 5 plan entries and *)
(* 10 key moments, and its key moments are in ascending order of           *)
(* timestamp.                                                              *)
C19_ListsAreCapped ==
    Reported =>
        /\ Len(TheReport.strengths) <= 5
        /\ Len(TheReport.weaknesses) <= 5
        /\ Len(TheReport.improvement_plan) <= 5
        /\ Len(TheReport.key_moments) <= 10
        /\ \A i \in 1..Len(TheReport.key_moments) :
              \A j \in 1..Len(TheReport.key_moments) :
                  i < j => TheReport.key_moments[i].timestamp
                               <= TheReport.key_moments[j].timestamp

(* A report in which all six metrics reach 0.7, so that one strength is    *)
(* cut, and whose key moments are of both types.                           *)
C19_Witness ==
    /\ Reported
    /\ \A metric \in BreakdownMetrics : Breakdown[metric] >= 700
    /\ Len(TheReport.strengths) = 5
    /\ Len(MomentsOfType("peak_engagement")) = 3
    /\ Len(TheReport.key_moments) > 3

(* C20: dominant_emotion is a label that no other label exceeds in the     *)
(* number of frames with a face, and every label with as many frames is    *)
(* first seen in a later frame.                                            *)
C20_DominantEmotionFirstMaximum ==
    (emotion_result # NULL /\ FaceFrames # {}) =>
        LET count(e) == Cardinality({f \in FaceFrames : f.emotion = e})
            first(e) == CHOOSE f \in FaceFrames :
                            /\ f.emotion = e
                            /\ \A g \in FaceFrames :
                                  g.emotion = e => f.frame_index <= g.frame_index
            labels == {f.emotion : f \in FaceFrames}
            dominant == FacialSummary.dominant_emotion
        IN  /\ dominant \in labels
            /\ \A e \in labels : count(e) <= count(dominant)
            /\ \A e \in labels \ {dominant} :
                  count(e) = count(dominant)
                      => first(dominant).frame_index < first(e).frame_index

(* A summary of frames with three labels, another label being as frequent  *)
(* as the dominant one.                                                    *)
C20_Witness ==
    /\ emotion_result # NULL
    /\ Cardinality({f.emotion : f \in FaceFrames}) = 3
    /\ \E e \in {f.emotion : f \in FaceFrames} :
          /\ e # FacialSummary.dominant_emotion
          /\ Cardinality({f \in FaceFrames : f.emotion = e})
                = Cardinality({f \in FaceFrames :
                                  f.emotion = FacialSummary.dominant_emotion})


(* The sum of the percentages of emotion_distribution, in tenths, and how  *)
(* far it is from 100.                                                     *)
DistributionSum ==
    LET dist == FacialSummary.emotion_distribution
        labels == Counter([i \in 1..Len(video_frames) |->
                              Get(emotion_result[1].timeline[i], "emotion", "none")]).keys
    IN  SumSeq([k \in 1..Len(labels) |-> Get(dist, labels[k], 0)])

DistributionGap ==
    IF DistributionSum >= 1000 THEN DistributionSum - 1000 ELSE 1000 - DistributionSum

(* C21 as stated: when a frame has a face, the percentages of              *)
(* emotion_distribution sum to 100.                                        *)
C21_DistributionSumsTo100 ==
    (emotion_result # NULL /\ FaceFrames # {}) => DistributionSum = 1000

(* C21, amended: when a frame has a face, the percentages of               *)
(* emotion_distribution sum to 100 up to the rounding of each label's      *)
(* percentage to one decimal: the sum differs from 100 by at most 0.05 per *)
(* label.                                                                  *)
C21_DistributionSumsTo100Rounded ==
    (emotion_result # NULL /\ FaceFrames # {}) =>
        2 * DistributionGap <= Cardinality(DOMAIN FacialSummary.emotion_distribution)

(* A summary of frames with three labels whose percentages do not sum to   *)
(* 100.                                                                    *)
C21_Witness ==
    /\ emotion_result # NULL
    /\ FaceFrames # {}
    /\ Cardinality(DOMAIN FacialSummary.emotion_distribution) = 3
    /\ DistributionGap > 0


(* The score of the analysed video if k of its frames with a face had eye  *)
(* contact, everything else in the two summaries being as it is.           *)
ScoreWithEyeContact(k) ==
    _calculate_performance_score(
        [emotion_result[1] EXCEPT
            !.summary.eye_contact_percentage =
                Ratio(100 * k, FacialSummary.frames_with_face)],
        audio_result[1])

(* C22: with the other facial inputs fixed, a larger eye_contact_percentage *)
(* gives neither a smaller eye_contact breakdown score nor a smaller       *)
(* facial_score, and the eye_contact score is 1 for every percentage of 80 *)
(* or more.                                                                *)
C22_EyeContactMonotone ==
    (Reported /\ FaceFrames # {}) =>
        LET n == FacialSummary.frames_with_face
            score == [k \in 0..n |-> ScoreWithEyeContact(k)]
        IN  /\ score[FacialSummary.eye_contact_percentage.num \div 100] = TheScore
            /\ \A k1 \in 0..n : \A k2 \in 0..n :
                  k1 <= k2 =>
                      /\ score[k1].breakdown.eye_contact
                             <= score[k2].breakdown.eye_contact
                      /\ score[k1].facial_score <= score[k2].facial_score
            /\ \A k \in 0..n :
                  100 * k >= 80 * n => score[k].breakdown.eye_contact = 1000

(* A report on 23 frames with a face, with eye contact in 11 of them:      *)
(* percentages below and above 80 are compared.                            *)
C22_Witness ==
    /\ Reported
    /\ FaceFrames # {}
    /\ FacialSummary.frames_with_face = 23
    /\ Breakdown.eye_contact = 598
    /\ ScoreWithEyeContact(19).breakdown.eye_contact = 1000
    /\ ScoreWithEyeContact(18).breakdown.eye_contact < 1000


(* The summary and the quality scores the report was computed from. *)
GivenSummary == Get(emotion_result[1], "summary", <<>>)

GivenQuality == Get(audio_result[1], "quality_scores", <<>>)

(* The facial inputs are the given ones: eye contact percentage, smile and *)
(* engagement in hundredths, share of happy frames in tenths of a percent. *)
FacialInputs(eye, smile, engagement, happy) ==
    /\ Truthy(GivenSummary)
    /\ GivenSummary.eye_contact_percentage = Ratio(eye, 1)
    /\ GivenSummary.average_smile_authenticity = smile
    /\ GivenSummary.average_engagement_level = engagement
    /\ Get(GivenSummary.emotion_distribution, "happy", 0) = happy

VoiceInputs(clarity, confidence, engagement) ==
    /\ Truthy(GivenQuality)
    /\ GivenQuality.clarity = clarity
    /\ GivenQuality.confidence = confidence
    /\ GivenQuality.engagement = engagement

(* C23: the four facial weights sum to 1, the three voice weights sum to 1 *)
(* and the two top-level weights sum to 1, as declared in Config and as    *)
(* _calculate_performance_score uses them: a single maximal input scores   *)
(* its declared weight, and all-maximal inputs give facial_score, voice_   *)
(* score and overall of 1.                                                 *)
C23_WeightsSumToOne ==
    /\ EYE_CONTACT_WEIGHT + SMILE_AUTHENTICITY_WEIGHT + ENGAGEMENT_WEIGHT
           + EMOTION_APPROPRIATENESS_WEIGHT = 1000
    /\ CLARITY_WEIGHT + CONFIDENCE_WEIGHT + VOICE_ENGAGEMENT_WEIGHT = 1000
    /\ FACIAL_SCORE_WEIGHT + VOICE_SCORE_WEIGHT = 1000
    /\ Reported =>
        /\ FacialInputs(100, 0, 0, 0) => TheScore.facial_score = EYE_CONTACT_WEIGHT
        /\ FacialInputs(0, 100, 0, 0) => TheScore.facial_score = SMILE_AUTHENTICITY_WEIGHT
        /\ FacialInputs(0, 0, 100, 0) => TheScore.facial_score = ENGAGEMENT_WEIGHT
        /\ FacialInputs(0, 0, 0, 1000) =>
               TheScore.facial_score = EMOTION_APPROPRIATENESS_WEIGHT
        /\ VoiceInputs(100, 0, 0) => TheScore.voice_score = CLARITY_WEIGHT
        /\ VoiceInputs(0, 100, 0) => TheScore.voice_score = CONFIDENCE_WEIGHT
        /\ VoiceInputs(0, 0, 100) => TheScore.voice_score = VOICE_ENGAGEMENT_WEIGHT
        /\ (FacialInputs(100, 100, 100, 1000) /\ VoiceInputs(0, 0, 0)) =>
               TheScore.overall = FACIAL_SCORE_WEIGHT
        /\ (FacialInputs(0, 0, 0, 0) /\ VoiceInputs(100, 100, 100)) =>
               TheScore.overall = VOICE_SCORE_WEIGHT
        /\ (FacialInputs(100, 100, 100, 1000) /\ VoiceInputs(100, 100, 100)) =>
               /\ TheScore.facial_score = 1000
               /\ TheScore.voice_score = 1000
               /\ TheScore.overall = 1000

(* A report of all-maximal inputs. *)
C23_Witness ==
    /\ Reported
    /\ FacialInputs(100, 100, 100, 1000)
    /\ VoiceInputs(100, 100, 100)
    /\ TheScore.overall = 1000

(* The audio track is degenerate: librosa fails on it, it has no pitched   *)
(* frame, it lasts 0 seconds, or it has no non-silent interval.            *)
DegenerateAudio ==
    \/ audio_features = NULL
    \/ audio_features[1].pitch_std = NULL
    \/ audio_features[1].wpm = NULL
    \/ audio_features[1].pauses = NULL

(* C24: degenerate audio is not an error: the pipeline does not fail on    *)
(* it, analyze_audio returns a result (the error dict when librosa fails), *)
(* generate_report returns a report on it, and audio data without          *)
(* quality_scores gives a voice_score of 0 and voice entries of 0 in the   *)
(* breakdown.                                                              *)
C24_DegenerateAudioIsNoError ==
    DegenerateAudio =>
        /\ phase # "failed"
        /\ phase \in {"report", "done"} =>
               /\ audio_result # NULL
               /\ audio_features = NULL =>
                      audio_result[1] = [error |-> "Audio analysis failed",
                                         duration_seconds |-> 0]
        /\ Reported =>
               /\ report_result # NULL
               /\ ~Truthy(QualityScores) =>
                      /\ TheScore.voice_score = 0
                      /\ Breakdown.voice_clarity = 0
                      /\ Breakdown.voice_confidence = 0
                      /\ Breakdown.voice_engagement = 0

(* A report on a video whose audio analysis errored: the voice score is 0, *)
(* the overall score is that of the face alone.                            *)
C24_Witness ==
    /\ Reported
    /\ audio_features = NULL
    /\ "error" \in DOMAIN audio_result[1]
    /\ TheScore.voice_score = 0
    /\ TheScore.overall > 0

(* The analysed frames that show a face looking away from the camera, in   *)
(* the order of the video, and the improvement_opportunity moments of the  *)
(* report.                                                                 *)
FramesWithoutEyeContact ==
    SelectSeq(emotion_result[1].timeline,
              LAMBDA f : f.face_detected /\ ~f.eye_contact)

Opportunities == MomentsOfType("improvement_opportunity")

(* C25: the report has improvement_opportunity moments only if more than 5 *)
(* frames lack eye contact; it then has exactly 3, the first such frame    *)
(* and the two that follow it at a distance of a third of their number     *)
(* (rounded down); otherwise it has none.                                  *)
C25_ThreeEvenlySpacedOpportunities ==
    Reported =>
        LET poor == FramesWithoutEyeContact
            n == Len(poor)
            step == n \div 3
        IN  IF n > 5
            THEN /\ Len(Opportunities) = 3
                 /\ \A k \in 1..3 :
                       Opportunities[k].timestamp = poor[1 + (k - 1) * step].timestamp
            ELSE Opportunities = <<>>

(* Seven frames without eye contact: the first, third and fifth of them    *)
(* are reported, the seventh is not.                                       *)
C25_Witness ==
    /\ Reported
    /\ Len(FramesWithoutEyeContact) = 7
    /\ Len(Opportunities) = 3
    /\ Opportunities[3].timestamp = FramesWithoutEyeContact[5].timestamp

(* The messages of the report about one metric of the breakdown. *)
StrengthReported(metric) ==
    \E k \in 1..Len(StrengthChecks) :
        /\ StrengthChecks[k].metric = metric
        /\ \E j \in 1..Len(TheReport.strengths) :
              TheReport.strengths[j] = StrengthChecks[k].text

WeaknessReported(metric) ==
    \E k \in 1..Len(WeaknessChecks) :
        /\ WeaknessChecks[k].metric = metric
        /\ \E j \in 1..Len(TheReport.weaknesses) :
              TheReport.weaknesses[j] = WeaknessChecks[k].text

WeaknessThreshold(metric) == IF metric = "smile_authenticity" THEN 400 ELSE 500

(* C26: every metric of the breakdown has its strength message in the      *)
(* report exactly when its score is at least 0.7 and its weakness message  *)
(* exactly when its score is below its threshold (0.5; 0.4 for             *)
(* smile_authenticity); no metric is reported as both.                     *)
C26_EachMetricJudgedOnItsOwn ==
    Reported =>
        \A metric \in BreakdownMetrics :
            /\ StrengthReported(metric) <=> Breakdown[metric] >= 700
            /\ WeaknessReported(metric) <=> Breakdown[metric] < WeaknessThreshold(metric)
            /\ ~(StrengthReported(metric) /\ WeaknessReported(metric))

(* ===================== properties of the store, continued ============== *)
(* The row and the results of a session, as far as they exist. *)
RowOf(S, session_id) == IF session_id \in DOMAIN S THEN Some(S[session_id]) ELSE NULL

(* The step is an operation on the session: its upload, a step of its      *)
(* pipeline run, or its deletion.                                          *)
OperatesOn(session_id) ==
    \/ session_id \in issued' \ issued
    \/ session_id \in deleted' \ deleted
    \/ \E i \in RunIds : runs[i].sid = session_id /\ runs'[i] # runs[i]

(* What the finished run i has written to its session row and to           *)
(* analysis_results.                                                       *)
WrittenBy(i) ==
    [status |-> IF runs[i].e = NULL THEN "completed" ELSE "failed",
     metadata |-> IF runs[i].metadata = NULL THEN NULL
                  ELSE Some(json_dumps(runs[i].metadata[1])),
     error |-> IF runs[i].e = NULL THEN NULL ELSE Some(runs[i].e[1])]

OwnRow(i, r) ==
    /\ runs[i].report # NULL
    /\ r.emotion_analysis = json_dumps(runs[i].emotion_data[1])
    /\ r.audio_analysis = json_dumps(runs[i].audio_data[1])
    /\ r.report = json_dumps(runs[i].report[1])

EndsAsItsRunWroteIt ==
    \A i \in RunIds :
        /\ \A r \in RowsOf(results, runs[i].sid) : OwnRow(i, r)
        /\ (runs[i].pc = "done" /\ Exists(runs[i].sid)) =>
               /\ sessions[runs[i].sid].status = WrittenBy(i).status
               /\ sessions[runs[i].sid].metadata = WrittenBy(i).metadata
               /\ sessions[runs[i].sid].error = WrittenBy(i).error
               /\ (runs[i].e = NULL /\ "save" \notin runs[i].failed)
                      => Cardinality(RowsOf(results, runs[i].sid)) = 1

OthersUntouched ==
    \A b \in Ids :
        (\/ RowOf(sessions', b) # RowOf(sessions, b)
         \/ RowsOf(results', b) # RowsOf(results, b)) => OperatesOn(b)

C28_ErrorIffFailed ==
    \A session_id \in DOMAIN sessions :
        sessions[session_id].error # NULL <=> StatusOf(session_id) = "failed"

(* C30: GET /api/results answers 404 only for a session that does not      *)
(* exist; for a session that exists it answers with the results (200) when *)
(* the session is completed, 202 while it is pending or processing and 500 *)
(* when it is failed.                                                      *)
C30_ResultsAnswerFollowsStatus ==
    [][response' # response =>
          LET session_id == response'.sid
              code == response'.code
          IN  /\ code = 404 <=> ~Exists(session_id)
              /\ Exists(session_id) =>
                    /\ StatusOf(session_id) = "completed" =>
                           (code = 200 /\ response'.body # NULL)
                    /\ StatusOf(session_id) \in {"pending", "processing"} => code = 202
                    /\ StatusOf(session_id) = "failed" => code = 500]_vars

(* C29: every row of analysis_results refers to a session row that exists. *)
C29_ResultsReferToSessions ==
    \A r \in results : Exists(r.session_id)
====
